---- MODULE Spec2Model ----
(***************************************************************************)
(* A model of the two algorithmic services of ai-clip:                     *)
(*   - ClipDetectionService.detect_clips  (clip_detection_service.py)      *)
(*   - VideoProcessingService.reframe_clip (video_processing_service.py)   *)
(* (Spec), of the lazily loaded model handles of both, read by two         *)
(* invocations at the same time (SpecLazy), of _calculate_optimal_crop     *)
(* called on any list of boxes (SpecCrop), and of process_clip with the    *)
(* files it writes and removes (SpecProcess).                              *)
(*                                                                         *)
(* Numbers.  Durations and times are whole seconds.  Classifier outputs    *)
(* are in tenths (compound sentiment -10..10, emotion probability 0..10).  *)
(* A score is kept as an exact fraction: the record [num, den] stands for  *)
(* the value num / (30000 * den), where den is the clip duration; the      *)
(* sub-scores of "details" are numerators over the same clip duration.     *)
(***************************************************************************)
EXTENDS Integers, Sequences, FiniteSets, TLC

VARIABLES
    \* ---- ClipDetectionService.detect_clips -------------------------------
    d_pc,                    \* position inside detect_clips
    transcription_segments,  \* argument: the transcript
    target_duration,         \* argument
    min_duration,            \* argument
    max_duration,            \* argument
    max_clips,               \* argument
    segments_with_features,  \* local of detect_clips (line 101)
    potential_clips,         \* local of detect_clips (line 104)
    scored_clips,            \* local of detect_clips (line 110)
    top_clips,               \* the value returned (line 116)
    d_error,                 \* exception raised out of detect_clips, or "none"
    raising,                 \* the collaborator that raises on FaultText, or "none"
    scan_counts,             \* per start index, the segments its scan examined
    nlp,                     \* self._nlp: "None" or "loaded"
    emotion_detector,        \* self._emotion_detector: "None" or "loaded"
    \* ---- VideoProcessingService.reframe_clip ----------------------------
    r_pc,                    \* position inside reframe_clip / _track_faces
    clip_exists,             \* os.path.exists(clip_path)
    aspect_ratio,            \* argument
    enable_face_tracking,    \* argument
    video_size,              \* <<orig_width, orig_height>> of the clip
    video_fps,               \* frames per second of the clip
    video_duration,          \* length of the clip, in tenths of a second
    predictor_file,          \* the shape predictor file is at one of the paths
    landmark_predictor,      \* self._landmark_predictor: "None" or "loaded"
    face_detector,           \* self._face_detector: "None" or "loaded"
    video_opened,            \* VideoFileClip(clip_path) was constructed
    new_size,                \* <<new_width, new_height>>
    frame_index,             \* i of the sampling loop
    sampled_frames,          \* the frame indices fetched with get_frame
    collected_faces,         \* face_positions inside _track_faces
    face_frames,             \* for each collected box, the frame index it came from
    track_log,               \* which outcome _track_faces logged
    face_positions,          \* what _track_faces returned to reframe_clip
    crop,                    \* <<crop_x, crop_y>>
    output_written,          \* write_videofile(output_path) was called
    r_error,                 \* exception raised out of reframe_clip, or "none"
    calls,                   \* calls of reframe_clip made on the instance so far
    found_unavailable,       \* some call on the instance found no predictor file
    \* ---- two invocations of one method running at the same time ----------
    lazy_call,               \* the method both threads invoke, or "none"
    thread_pc,               \* per thread: "check", "load", "done" (or "idle")
    thread_pos,              \* per thread: which property access it is at
    thread_items,            \* per thread: segments (or frames) of its call
    loads,                   \* per model handle: the assignments made to it
    \* ---- VideoProcessingService._calculate_optimal_crop, called alone ----
    crop_pc,                 \* "idle", "call" or "returned"
    crop_args,               \* the arguments: face_positions, orig_width, ...
    crop_result,             \* the (crop_x, crop_y) returned
    \* ---- VideoProcessingService.process_clip ----------------------------
    p_pc,                    \* position inside process_clip
    files,                   \* the paths at which a file exists
    start_time,              \* argument, in seconds of the source video
    end_time,                \* argument
    captions,                \* argument: records with start_time, end_time, text
    p_aspect_ratio,          \* argument aspect_ratio
    output_path,             \* argument, "None" if not given; then lines 460-462
    extracted_path,          \* local (line 468), "None" before
    reframed_path,           \* local (line 471), "None" before
    adjusted_captions,       \* local (lines 479-489)
    final_path,              \* the value returned (lines 491, 507), "None" before
    step_log,                \* the service methods called: op, input, output
    removed,                 \* the paths given to os.remove, in order
    p_error                  \* exception raised out of process_clip, or "none"

detect_vars == <<d_pc, transcription_segments, target_duration, min_duration,
                 max_duration, max_clips, segments_with_features,
                 potential_clips, scored_clips, top_clips, d_error, raising,
                 scan_counts, nlp, emotion_detector>>

reframe_vars == <<r_pc, clip_exists, aspect_ratio, enable_face_tracking, video_size,
                  video_fps, video_duration, predictor_file, landmark_predictor,
                  face_detector, video_opened, new_size, frame_index, sampled_frames,
                  collected_faces, face_frames, track_log, face_positions, crop, output_written,
                  r_error, calls, found_unavailable>>

lazy_vars == <<lazy_call, thread_pc, thread_pos, thread_items, loads>>

crop_vars == <<crop_pc, crop_args, crop_result>>

process_vars == <<p_pc, files, start_time, end_time, captions, p_aspect_ratio,
                  output_path, extracted_path, reframed_path, adjusted_captions,
                  final_path, step_log, removed, p_error>>

vars == <<detect_vars, reframe_vars, lazy_vars, crop_vars, process_vars>>

-----------------------------------------------------------------------------
(* Bounds of the model *)

MaxSegs == 3

MaxClips == 2

MaxDim == 4

MaxCalls == 2

MaxItems == 2

MaxFaces == 2

MaxCaptions == 2

-----------------------------------------------------------------------------
(* Small helpers *)

Abs(x) == IF x < 0 THEN -x ELSE x

Min(a, b) == IF a <= b THEN a ELSE b

Max(a, b) == IF a >= b THEN a ELSE b

\* All sequences over S of length 0..n
SeqsUpTo(S, n) == UNION {[1..k -> S] : k \in 0..n}

\* Python's dict.get(key, default)
Get(m, k, default) == IF k \in DOMAIN m THEN m[k] ELSE default

\* Python's seq[:k], negative k included
SlicePrefix(s, k) ==
    IF k >= 0 THEN SubSeq(s, 1, Min(k, Len(s)))
    ELSE SubSeq(s, 1, Max(0, Len(s) + k))

-----------------------------------------------------------------------------
(* Texts.  A text is a sequence of tokens; " " is a whitespace token.       *)

IsSpace(tok) == tok = " "

RECURSIVE LStrip(_)
LStrip(t) == IF t # <<>> /\ IsSpace(Head(t)) THEN LStrip(Tail(t)) ELSE t

RECURSIVE RStrip(_)
RStrip(t) ==
    IF t # <<>> /\ IsSpace(t[Len(t)]) THEN RStrip(SubSeq(t, 1, Len(t) - 1)) ELSE t

\* str.rstrip() in the place of str.strip()
RStripOnly(t) == RStrip(t)

\* str.strip()

Strip(t) == RStrip(LStrip(t))

\* str.lower() on one token
Lower(tok) == IF tok = "Best" THEN "best" ELSE tok

\* text.lower().split(): the non-whitespace tokens, lower-cased
RECURSIVE LowerSplit(_)
LowerSplit(t) ==
    IF t = <<>> THEN <<>>
    ELSE IF IsSpace(Head(t)) THEN LowerSplit(Tail(t))
    ELSE <<Lower(Head(t))>> \o LowerSplit(Tail(t))

TxtOk == <<"ok">>

TxtWow == <<" ", "wow!">>

TxtWhy == <<"why?">>

TxtBest == <<"Best", " ", "ever", " ", "Paris">>

TxtBlank == <<" ">>

-----------------------------------------------------------------------------
(* External collaborators: deterministic functions of the text.            *)

\* SentimentIntensityAnalyzer.polarity_scores(text)["compound"], in tenths
PolarityCompound(text) ==
    IF text = Strip(TxtWow) THEN 8
    ELSE IF text = TxtWhy THEN -5
    ELSE IF text = TxtBest THEN 6
    ELSE 0

EmotionLabels == {"joy", "surprise", "anger", "fear", "sadness", "disgust", "neutral"}

\* the text on which the collaborator named by "raising" raises
FaultText == <<"wow!">>

Classifiers == {"sentiment", "emotion", "linguistic"}

\* the call of the classifier on the text raises
ClassifierRaises(classifier, text, who) == who = classifier /\ text = FaultText

\* self.emotion_detector(text)[0] as a label -> probability mapping (tenths)
EmotionDetector(text) ==
    IF text = Strip(TxtWow) THEN [l \in {"joy", "surprise"} |-> IF l = "joy" THEN 9 ELSE 1]
    ELSE IF text = TxtBest
         THEN [l \in {"joy", "anger", "fear", "sadness", "disgust"} |->
                  IF l = "joy" THEN 5 ELSE IF l = "anger" THEN 2 ELSE 1]
    ELSE IF text = TxtWhy THEN [l \in {} |-> 0]
    ELSE [l \in {"neutral"} |-> 10]

\* _detect_emotion: the empty mapping when the pipeline raised
DetectEmotion(text, who) ==
    IF ClassifierRaises("emotion", text, who) THEN [l \in {} |-> 0]
    ELSE EmotionDetector(text)

\* spaCy: some sentence of the text ends with the mark
SentEndsWith(text, mark) ==
    \E i \in 1..Len(text) :
        \/ mark = "?" /\ text[i] = "why?"
        \/ mark = "!" /\ text[i] = "wow!"

\* spaCy: len(doc.ents)
NamedEntities(text) == Cardinality({i \in 1..Len(text) : text[i] = "Paris"})

ViralKeywords == {"amazing", "incredible", "unbelievable", "shocking", "surprising",
                  "never", "ever", "best", "worst", "secret", "trick", "hack",
                  "revealed", "exclusive", "breaking"}

ViralKeywordCount(text) ==
    LET words == LowerSplit(text)
    IN  Cardinality({i \in 1..Len(words) : words[i] \in ViralKeywords})

-----------------------------------------------------------------------------
(* _calculate_segment_features *)

SegmentFeatures(segment, who) ==
    LET text == Strip(segment.text)
    IN  [start |-> segment.start,
         end |-> segment.end,
         text |-> text,
         duration |-> segment.end - segment.start,
         sentiment |-> PolarityCompound(text),
         emotions |-> DetectEmotion(text, who),
         is_question |-> SentEndsWith(text, "?"),
         is_exclamation |-> SentEndsWith(text, "!"),
         named_entities |-> NamedEntities(text),
         viral_keyword_count |-> ViralKeywordCount(text)]

\* the result of the loop of lines 130-170 when no call in it raises
RECURSIVE CalculateSegmentFeatures(_, _)
CalculateSegmentFeatures(segments, who) ==
    IF segments = <<>> THEN <<>>
    ELSE LET segment == Head(segments)
             rest == CalculateSegmentFeatures(Tail(segments), who)
         IN  IF Strip(segment.text) = <<>> THEN rest
             ELSE <<SegmentFeatures(segment, who)>> \o rest

\* the loop reaches lines 148 and 152, where the emotion_detector and nlp
\* properties load their models: the first segment with text gets past the
\* sentiment call of line 144
ReachesLazyModels(segments, who) ==
    \E i \in 1..Len(segments) :
        /\ Strip(segments[i].text) # <<>>
        /\ \A k \in 1..(i - 1) : Strip(segments[k].text) = <<>>
        /\ ~ClassifierRaises("sentiment", Strip(segments[i].text), who)

\* polarity_scores (line 144) and self.nlp (line 152) are called outside any
\* try block: an exception of either leaves the loop and the method
FeatureExtractionRaises(segments, who) ==
    \E i \in 1..Len(segments) :
        LET text == Strip(segments[i].text)
        IN  /\ text # <<>>
            /\ \/ ClassifierRaises("sentiment", text, who)
               \/ ClassifierRaises("linguistic", text, who)

-----------------------------------------------------------------------------
(* _find_potential_clips.  Indices are 1-based here; start_idx and end_idx  *)
(* are kept in each clip as bookkeeping of the (i, j) pair that made it.    *)

MakeClip(segments, start_idx, end_idx, current_duration) ==
    [start_time |-> segments[start_idx].start,
     end_time |-> segments[end_idx].end,
     duration |-> current_duration,
     segments |-> SubSeq(segments, start_idx, end_idx),
     start_idx |-> start_idx,
     end_idx |-> end_idx]

\* the test of line 223 without its upper limit
InRangeNoUpper(current_duration, mind, maxd) == mind <= current_duration

\* the test of line 223

InRange(current_duration, mind, maxd) ==
    mind <= current_duration /\ current_duration <= maxd

\* the test of line 233 with the limit included
NearTargetInclusive(current_duration, target) == Abs(current_duration - target) <= 5

\* the test of line 233 for durations up to the target only
NearTargetFromBelow(current_duration, target) ==
    0 <= target - current_duration /\ target - current_duration < 5

\* the test of line 233

NearTarget(current_duration, target) == Abs(current_duration - target) < 5

\* the condition of line 219 without its duration limit
ScanContinuesToTheEnd(end_idx, n, current_duration, maxd) == end_idx <= n

\* the condition of the while loop, line 219

ScanContinues(end_idx, n, current_duration, maxd) ==
    end_idx <= n /\ current_duration < maxd

\* the while loop of lines 219-236, from (end_idx, current_duration)
RECURSIVE ExtendFrom(_, _, _, _, _, _, _, _)
ExtendFrom(segments, target, mind, maxd, start_idx, end_idx, current_duration, acc) ==
    IF ScanContinues(end_idx, Len(segments), current_duration, maxd)
    THEN LET cur == current_duration + segments[end_idx].duration
         IN  IF InRange(cur, mind, maxd)
             THEN LET acc2 == Append(acc, MakeClip(segments, start_idx, end_idx, cur))
                  IN  IF NearTarget(cur, target)
                      THEN acc2
                      ELSE ExtendFrom(segments, target, mind, maxd,
                                      start_idx, end_idx + 1, cur, acc2)
             ELSE ExtendFrom(segments, target, mind, maxd,
                             start_idx, end_idx + 1, cur, acc)
    ELSE acc

\* the for loop of line 214, from start_idx
RECURSIVE FindFrom(_, _, _, _, _, _)
FindFrom(segments, target, mind, maxd, start_idx, acc) ==
    IF start_idx > Len(segments) THEN acc
    ELSE FindFrom(segments, target, mind, maxd, start_idx + 1,
                  ExtendFrom(segments, target, mind, maxd, start_idx, start_idx, 0, acc))

FindPotentialClips(segments, target, mind, maxd) ==
    FindFrom(segments, target, mind, maxd, 1, <<>>)

\* the number of passes through the body of the while loop of lines 219-236,
\* from (end_idx, current_duration): one segment is examined per pass
RECURSIVE ExaminedFrom(_, _, _, _, _, _)
ExaminedFrom(segments, target, mind, maxd, end_idx, current_duration) ==
    IF ScanContinues(end_idx, Len(segments), current_duration, maxd)
    THEN LET cur == current_duration + segments[end_idx].duration
         IN  IF InRange(cur, mind, maxd) /\ NearTarget(cur, target)
             THEN 1
             ELSE 1 + ExaminedFrom(segments, target, mind, maxd, end_idx + 1, cur)
    ELSE 0

\* for each start index of the for loop of line 214, the segments its scan examined
ScanCounts(segments, target, mind, maxd) ==
    [start_idx \in 1..Len(segments) |->
        ExaminedFrom(segments, target, mind, maxd, start_idx, 0)]

-----------------------------------------------------------------------------
(* _score_clips *)

\* lines 273-278, in hundredths
EmotionIntensity(emotions) ==
    Get(emotions, "joy", 0) * 15 + Get(emotions, "surprise", 0) * 13
    + Get(emotions, "anger", 0) * 12 + Get(emotions, "fear", 0) * 10
    + Get(emotions, "sadness", 0) * 10 + Get(emotions, "disgust", 0) * 10

RECURSIVE SumSeq(_)
SumSeq(s) == IF s = <<>> THEN 0 ELSE Head(s) + SumSeq(Tail(s))

\* sum over the clip's segments of term * segment["duration"], terms[i]
\* being the term of segment i
WeightedSum(segments, terms) ==
    SumSeq([i \in 1..Len(segments) |-> terms[i] * segments[i].duration])

SentimentTerm(segment) == Abs(segment.sentiment)

EmotionTerm(segment) ==
    IF DOMAIN segment.emotions # {} THEN EmotionIntensity(segment.emotions) ELSE 0

QuestionTerm(segment) == IF segment.is_question THEN 1 ELSE 0

\* lines 284-285 adding the duration of every segment
ExclamationTermUnflagged(segment) == 1

\* lines 284-285

ExclamationTerm(segment) == IF segment.is_exclamation THEN 1 ELSE 0

EntityTerm(segment) == segment.named_entities

KeywordTerm(segment) == segment.viral_keyword_count

\* lines 313-314 with target_duration in the place of 60
DurationPenaltyAroundTarget(duration) == Max(0, 30 - Abs(duration - target_duration))

\* lines 313-314: max(0, 1 - |duration - 60| / 30), in thirtieths

DurationPenalty(duration) == Max(0, 30 - Abs(duration - 60))

\* lines 303-310, in thousandths, before the division by the clip duration
FinalScoreNum(s, e, q, x, n, k) ==
    s * 20 + e * 3 + q * 150 + x * 150 + n * 100 + k * 100

RECURSIVE JoinText(_)
JoinText(segments) ==
    IF segments = <<>> THEN <<>>
    ELSE IF Len(segments) = 1 THEN Head(segments).text
    ELSE Head(segments).text \o <<" ">> \o JoinText(Tail(segments))

ScoreClip(clip) ==
    LET segments == clip.segments
        s == WeightedSum(segments, [i \in 1..Len(segments) |-> SentimentTerm(segments[i])])
        e == WeightedSum(segments, [i \in 1..Len(segments) |-> EmotionTerm(segments[i])])
        q == WeightedSum(segments, [i \in 1..Len(segments) |-> QuestionTerm(segments[i])])
        x == WeightedSum(segments, [i \in 1..Len(segments) |-> ExclamationTerm(segments[i])])
        n == WeightedSum(segments, [i \in 1..Len(segments) |-> EntityTerm(segments[i])])
        k == WeightedSum(segments, [i \in 1..Len(segments) |-> KeywordTerm(segments[i])])
    IN  [start_time |-> clip.start_time,
         end_time |-> clip.end_time,
         duration |-> clip.duration,
         score |-> [num |-> FinalScoreNum(s, e, q, x, n, k) * DurationPenalty(clip.duration),
                    den |-> clip.duration],
         text |-> JoinText(segments),
         details |-> [sentiment_score |-> s, emotion_score |-> e,
                      question_score |-> q, exclamation_score |-> x,
                      entity_score |-> n, keyword_score |-> k],
         start_idx |-> clip.start_idx,
         end_idx |-> clip.end_idx]

\* the divisions of lines 295-300 raise ZeroDivisionError on a zero duration
ScoringRaises(clips) == \E i \in 1..Len(clips) : clips[i].duration = 0

ScoreClips(clips) == [i \in 1..Len(clips) |-> ScoreClip(clips[i])]

-----------------------------------------------------------------------------
(* sorted(scored_clips, key=score, reverse=True)[:max_clips] *)

\* a.score >= b.score, for positive denominators
ScoreGeq(a, b) == a.score.num * b.score.den >= b.score.num * a.score.den

ScoreEq(a, b) == a.score.num * b.score.den = b.score.num * a.score.den

\* an insertion that puts c before the elements of equal score
RECURSIVE InsertDescTiesFirst(_, _)
InsertDescTiesFirst(sorted, c) ==
    IF sorted = <<>> THEN <<c>>
    ELSE IF ~ScoreGeq(c, Head(sorted))
         THEN <<Head(sorted)>> \o InsertDescTiesFirst(Tail(sorted), c)
    ELSE <<c>> \o sorted

\* stable insertion: c goes after every element that scores at least as high
RECURSIVE InsertDesc(_, _)
InsertDesc(sorted, c) ==
    IF sorted = <<>> THEN <<c>>
    ELSE IF ScoreGeq(Head(sorted), c) THEN <<Head(sorted)>> \o InsertDesc(Tail(sorted), c)
    ELSE <<c>> \o sorted

RECURSIVE SortInto(_, _)
SortInto(sorted, clips) ==
    IF clips = <<>> THEN sorted
    ELSE SortInto(InsertDesc(sorted, Head(clips)), Tail(clips))

SortedDesc(clips) == SortInto(<<>>, clips)

\* the slice taking one clip too many
TopClipsOneMore(clips, k) == SlicePrefix(SortedDesc(clips), k + 1)

TopClips(clips, k) == SlicePrefix(SortedDesc(clips), k)

-----------------------------------------------------------------------------
(* The calls of detect_clips the model makes *)

\* one transcript segment: silence before it, its length, its text
SegmentOptions ==
    {[gap |-> 0, dur |-> 30, text |-> TxtOk],
     [gap |-> 0, dur |-> 35, text |-> TxtWow],
     [gap |-> 0, dur |-> 0, text |-> TxtWhy],
     [gap |-> 0, dur |-> 95, text |-> TxtOk],
     [gap |-> 5, dur |-> 30, text |-> TxtBest],
     [gap |-> 0, dur |-> 30, text |-> TxtBlank]}

\* the transcript made of the options, in time order
RECURSIVE BuildSegments(_, _)
BuildSegments(opts, now) ==
    IF opts = <<>> THEN <<>>
    ELSE LET o == Head(opts)
             seg == [start |-> now + o.gap, end |-> now + o.gap + o.dur, text |-> o.text]
         IN  <<seg>> \o BuildSegments(Tail(opts), seg.end)

\* (target_duration, min_duration, max_duration); the last three are not
\* 0 < min <= target <= max
DurationConfigs ==
    {[target |-> 60, min |-> 30, max |-> 90],
     [target |-> 30, min |-> 30, max |-> 35],
     [target |-> 65, min |-> 35, max |-> 95],
     [target |-> 90, min |-> 90, max |-> 95],
     [target |-> 60, min |-> 90, max |-> 30],
     [target |-> 60, min |-> 0, max |-> 90],
     [target |-> 20, min |-> 30, max |-> 90]}

ValidDurations(target, mind, maxd) == 0 < mind /\ mind <= target /\ target <= maxd

\* segments for the calls in which a collaborator raises
RaisingSegmentOptions ==
    {[gap |-> 0, dur |-> 30, text |-> TxtOk],
     [gap |-> 0, dur |-> 35, text |-> TxtWow],
     [gap |-> 0, dur |-> 5, text |-> TxtWow],
     [gap |-> 0, dur |-> 30, text |-> TxtBlank]}

\* segments shorter than min_duration
ShortSegmentOptions ==
    {[gap |-> 0, dur |-> 28, text |-> TxtOk],
     [gap |-> 0, dur |-> 5, text |-> TxtWow],
     [gap |-> 0, dur |-> 0, text |-> TxtWhy]}

\* a new instance (lines 43-46) and the locals of detect_clips before its
\* first statement
DetectLocalsInit ==
    /\ segments_with_features = <<>>
    /\ potential_clips = <<>>
    /\ scored_clips = <<>>
    /\ top_clips = <<>>
    /\ d_error = "none"
    /\ scan_counts = <<>>
    /\ nlp = "None"
    /\ emotion_detector = "None"

DetectInit ==
    /\ d_pc = "start"
    /\ \E opts \in SeqsUpTo(SegmentOptions, MaxSegs) :
          transcription_segments = BuildSegments(opts, 0)
    /\ \E c \in DurationConfigs :
          /\ target_duration = c.target
          /\ min_duration = c.min
          /\ max_duration = c.max
    /\ max_clips \in -1..MaxClips
    /\ raising = "none"
    /\ DetectLocalsInit

\* calls in which one collaborator raises on FaultText
DetectInitRaising ==
    /\ d_pc = "start"
    /\ \E opts \in SeqsUpTo(RaisingSegmentOptions, MaxSegs) :
          transcription_segments = BuildSegments(opts, 0)
    /\ target_duration = 60
    /\ min_duration = 30
    /\ max_duration = 90
    /\ max_clips = 5
    /\ raising \in Classifiers
    /\ DetectLocalsInit

\* calls whose target_duration is min_duration, over short segments
DetectInitShort ==
    /\ d_pc = "start"
    /\ \E opts \in SeqsUpTo(ShortSegmentOptions, MaxSegs) :
          transcription_segments = BuildSegments(opts, 0)
    /\ target_duration = 30
    /\ min_duration = 30
    /\ max_duration = 35
    /\ max_clips = 5
    /\ raising = "none"
    /\ DetectLocalsInit

detect_args == <<transcription_segments, target_duration, min_duration,
                 max_duration, max_clips, raising>>

\* self._nlp and self._emotion_detector
detect_handles == <<nlp, emotion_detector>>

\* lines 94-96
DetectNoSegments ==
    /\ d_pc = "start"
    /\ transcription_segments = <<>>
    /\ top_clips' = <<>>
    /\ d_pc' = "done"
    /\ UNCHANGED <<reframe_vars, lazy_vars, crop_vars, process_vars>>
    /\ UNCHANGED <<detect_args, detect_handles, segments_with_features, potential_clips,
                   scored_clips, d_error, scan_counts>>

\* line 101
DetectFeatures ==
    /\ d_pc = "start"
    /\ transcription_segments # <<>>
    /\ IF FeatureExtractionRaises(transcription_segments, raising)
       THEN /\ d_error' = "ClassifierError"
            /\ d_pc' = "raised"
            /\ UNCHANGED segments_with_features
       ELSE /\ segments_with_features' =
                   CalculateSegmentFeatures(transcription_segments, raising)
            /\ d_pc' = "find"
            /\ UNCHANGED d_error
    /\ emotion_detector' = IF ReachesLazyModels(transcription_segments, raising)
                           THEN "loaded" ELSE emotion_detector
    /\ nlp' = IF ReachesLazyModels(transcription_segments, raising)
              THEN "loaded" ELSE nlp
    /\ UNCHANGED <<reframe_vars, lazy_vars, crop_vars, process_vars>>
    /\ UNCHANGED <<detect_args, potential_clips, scored_clips, top_clips, scan_counts>>

\* lines 104-107
DetectFind ==
    /\ d_pc = "find"
    /\ potential_clips' = FindPotentialClips(segments_with_features, target_duration,
                                             min_duration, max_duration)
    /\ scan_counts' = ScanCounts(segments_with_features, target_duration,
                                 min_duration, max_duration)
    /\ d_pc' = "score"
    /\ UNCHANGED <<reframe_vars, lazy_vars, crop_vars, process_vars>>
    /\ UNCHANGED <<detect_args, detect_handles, segments_with_features, scored_clips, top_clips, d_error>>

\* line 110 with abs(sentiment) written back into the feature segments
DetectScoreInPlace ==
    /\ d_pc = "score"
    /\ IF ScoringRaises(potential_clips)
       THEN /\ d_error' = "ZeroDivisionError"
            /\ d_pc' = "raised"
            /\ UNCHANGED <<scored_clips, segments_with_features>>
       ELSE /\ scored_clips' = ScoreClips(potential_clips)
            /\ segments_with_features' =
                  [i \in 1..Len(segments_with_features) |->
                      [segments_with_features[i] EXCEPT !.sentiment = Abs(@)]]
            /\ d_pc' = "sort"
            /\ UNCHANGED d_error
    /\ UNCHANGED <<reframe_vars, lazy_vars, crop_vars, process_vars>>
    /\ UNCHANGED <<detect_args, detect_handles, potential_clips, top_clips, scan_counts>>

\* line 110

DetectScore ==
    /\ d_pc = "score"
    /\ IF ScoringRaises(potential_clips)
       THEN /\ d_error' = "ZeroDivisionError"
            /\ d_pc' = "raised"
            /\ UNCHANGED scored_clips
       ELSE /\ scored_clips' = ScoreClips(potential_clips)
            /\ d_pc' = "sort"
            /\ UNCHANGED d_error
    /\ UNCHANGED <<reframe_vars, lazy_vars, crop_vars, process_vars>>
    /\ UNCHANGED <<detect_args, detect_handles, segments_with_features, potential_clips, top_clips,
                   scan_counts>>

\* lines 113-116
DetectReturn ==
    /\ d_pc = "sort"
    /\ top_clips' = TopClips(scored_clips, max_clips)
    /\ d_pc' = "done"
    /\ UNCHANGED <<reframe_vars, lazy_vars, crop_vars, process_vars>>
    /\ UNCHANGED <<detect_args, detect_handles, segments_with_features, potential_clips,
                   scored_clips, d_error, scan_counts>>

\* no call of detect_clips in this behaviour
DetectIdle ==
    /\ d_pc = "idle"
    /\ transcription_segments = <<>>
    /\ target_duration = 60
    /\ min_duration = 30
    /\ max_duration = 90
    /\ max_clips = 5
    /\ raising = "none"
    /\ DetectLocalsInit

-----------------------------------------------------------------------------
(* reframe_clip: the crop dimensions *)

ASPECT_RATIOS ==
    [r \in {"9:16", "1:1", "16:9"} |->
        IF r = "9:16" THEN <<9, 16>> ELSE IF r = "1:1" THEN <<1, 1>> ELSE <<16, 9>>]

\* the test of line 152 left out
RatioSupportedAlways(ratio) == TRUE

\* line 152
RatioSupported(ratio) == ratio \in DOMAIN ASPECT_RATIOS

\* Python's int() of the fraction a / b, b > 0: truncation towards zero
IntOfFraction(a, b) == IF a >= 0 THEN a \div b ELSE -((-a) \div b)

\* Python's round() of the fraction a / b, a >= 0, b > 0: half goes to even
RoundOfFraction(a, b) ==
    LET q == a \div b
        r == a % b
    IN  IF 2 * r < b THEN q
        ELSE IF 2 * r > b THEN q + 1
        ELSE IF q % 2 = 0 THEN q ELSE q + 1

\* lines 176-183 with round() in the place of int()
NewSizeRounded(orig_width, orig_height, target_width, target_height) ==
    IF target_width * orig_height > orig_width * target_height
    THEN <<orig_width, RoundOfFraction(orig_width * target_height, target_width)>>
    ELSE <<RoundOfFraction(orig_height * target_width, target_height), orig_height>>

\* lines 176-183 with the two branches exchanged
NewSizeSwapped(orig_width, orig_height, target_width, target_height) ==
    IF target_width * orig_height > orig_width * target_height
    THEN <<IntOfFraction(orig_height * target_width, target_height), orig_height>>
    ELSE <<orig_width, IntOfFraction(orig_width * target_height, target_width)>>

\* lines 168-183: target_aspect = target_width / target_height and
\* orig_aspect = orig_width / orig_height are compared and applied as fractions
NewSize(orig_width, orig_height, target_width, target_height) ==
    IF target_width * orig_height > orig_width * target_height
    THEN <<orig_width, IntOfFraction(orig_width * target_height, target_width)>>
    ELSE <<IntOfFraction(orig_height * target_width, target_height), orig_height>>

\* lines 197-198 and 201-202, and line 333
CenterCrop(orig_width, orig_height, crop_width, crop_height) ==
    <<Max(0, (orig_width - crop_width) \div 2), Max(0, (orig_height - crop_height) \div 2)>>

-----------------------------------------------------------------------------
(* _track_faces *)

\* the synthetic box anchored at the frame centre instead of centred on it
CenterBoxAnchored(width, height) ==
    <<width \div 2, height \div 2, width \div 3, height \div 3>>

\* lines 248-252, 293-297, 304-308: (x, y, width, height)
CenterBox(width, height) ==
    LET center_x == width \div 2
        center_y == height \div 2
        w == width \div 3
        h == height \div 3
    IN  <<center_x - w \div 2, center_y - h \div 2, w, h>>

\* lines 257-259 with round() in the place of int()
FrameIntervalRounded(fps) == Max(1, RoundOfFraction(fps, 10))

\* lines 257-259, for the default sample_rate of 10
FrameInterval(fps) == Max(1, IntOfFraction(fps, 10))

\* line 262 with one frame more
TotalFramesInclusive(fps, duration) == IntOfFraction(fps * duration, 10) + 1

\* line 262, the duration being in tenths of a second
TotalFrames(fps, duration) == IntOfFraction(fps * duration, 10)

\* the end of _track_faces without the fallback of lines 302-308
TrackResultAsCollected(faces, width, height) == faces

\* lines 299-310
TrackResult(faces, width, height) ==
    IF faces = <<>> THEN <<CenterBox(width, height)>> ELSE faces

\* what the face detector may return for one frame: boxes inside the frame
\* and boxes partly outside it
DetectorOutputs(width, height) ==
    LET inside == <<width \div 4, height \div 4, (width + 1) \div 2, (height + 1) \div 2>>
        top_left == <<-2, -3, 5, 5>>
        bottom_right == <<width - 1, height - 1, 4, 6>>
    IN  {<<>>, <<inside>>, <<top_left>>, <<bottom_right>>, <<top_left, inside>>}

-----------------------------------------------------------------------------
(* _calculate_optimal_crop *)

\* line 336 taking each box's corner for its centre
RECURSIVE SumCorners(_, _)
SumCorners(faces, axis) ==
    IF faces = <<>> THEN 0
    ELSE Head(faces)[axis] + SumCorners(Tail(faces), axis)

RECURSIVE SumCenters(_, _)
SumCenters(faces, axis) ==
    IF faces = <<>> THEN 0
    ELSE Head(faces)[axis] + Head(faces)[axis + 2] \div 2 + SumCenters(Tail(faces), axis)

\* lines 341-342 without the clamp to the frame
CropAxisUnclamped(faces, axis, orig, crop_dim) ==
    IntOfFraction(SumCenters(faces, axis) - (crop_dim \div 2) * Len(faces), Len(faces))

\* lines 336-342 centring on the first face instead of the mean
CropAxisOnFirstFace(faces, axis, orig, crop_dim) ==
    Max(0, Min(orig - crop_dim, faces[1][axis] + faces[1][axis + 2] \div 2 - crop_dim \div 2))

\* lines 336-342 on one axis (1: x and width, 2: y and height):
\* max(0, min(orig - crop_dim, int(avg - crop_dim // 2)))
CropAxis(faces, axis, orig, crop_dim) ==
    Max(0, Min(orig - crop_dim,
               IntOfFraction(SumCenters(faces, axis) - (crop_dim \div 2) * Len(faces),
                             Len(faces))))

CalculateOptimalCrop(faces, orig_width, orig_height, crop_width, crop_height) ==
    IF faces = <<>>
    THEN CenterCrop(orig_width, orig_height, crop_width, crop_height)
    ELSE <<CropAxis(faces, 1, orig_width, crop_width),
           CropAxis(faces, 2, orig_height, crop_height)>>

-----------------------------------------------------------------------------
(* The calls of reframe_clip the model makes *)

\* two usual frame sizes, a portrait one, and every small one
FrameSizes ==
    {<<1920, 1080>>, <<640, 480>>, <<9, 16>>} \cup ((1..MaxDim) \X (1..MaxDim))

RequestedRatios == {"9:16", "1:1", "16:9", "4:3"}

\* (fps, duration in tenths of a second): 3, 2, 2 and 0 sampled frames
VideoTimings ==
    {[fps |-> 29, duration |-> 2],
     [fps |-> 30, duration |-> 2],
     [fps |-> 5, duration |-> 4],
     [fps |-> 24, duration |-> 0]}

ReframeInit ==
    /\ r_pc = "start"
    /\ clip_exists \in BOOLEAN
    /\ aspect_ratio \in RequestedRatios
    /\ enable_face_tracking \in BOOLEAN
    /\ video_size \in FrameSizes
    /\ \E t \in VideoTimings :
          /\ video_fps = t.fps
          /\ video_duration = t.duration
    /\ predictor_file \in BOOLEAN
    /\ landmark_predictor = "None"
    /\ face_detector = "None"
    /\ video_opened = FALSE
    /\ new_size = <<0, 0>>
    /\ frame_index = 0
    /\ sampled_frames = <<>>
    /\ collected_faces = <<>>
    /\ face_frames = <<>>
    /\ track_log = "none"
    /\ face_positions = <<>>
    /\ crop = <<0, 0>>
    /\ output_written = FALSE
    /\ r_error = "none"
    /\ calls = 1
    /\ found_unavailable = FALSE

\* a new instance of which reframe_clip is not called through the steps below
ReframeNoCall ==
    /\ r_pc = "idle"
    /\ clip_exists = FALSE
    /\ aspect_ratio = "9:16"
    /\ enable_face_tracking = TRUE
    /\ video_size = <<1, 1>>
    /\ video_fps = 24
    /\ video_duration = 0
    /\ landmark_predictor = "None"
    /\ face_detector = "None"
    /\ video_opened = FALSE
    /\ new_size = <<0, 0>>
    /\ frame_index = 0
    /\ sampled_frames = <<>>
    /\ collected_faces = <<>>
    /\ face_frames = <<>>
    /\ track_log = "none"
    /\ face_positions = <<>>
    /\ crop = <<0, 0>>
    /\ output_written = FALSE
    /\ r_error = "none"
    /\ calls = 0
    /\ found_unavailable = FALSE

\* no call of reframe_clip in this behaviour
ReframeIdle == ReframeNoCall /\ predictor_file = FALSE

reframe_args == <<clip_exists, aspect_ratio, enable_face_tracking, video_size,
                  video_fps, video_duration, predictor_file, calls>>

track_vars == <<landmark_predictor, face_detector, frame_index, sampled_frames,
                collected_faces, face_frames, track_log, face_positions>>

\* lines 149-150
ReframeCheckClip ==
    /\ r_pc = "start"
    /\ IF clip_exists
       THEN r_pc' = "check_ratio" /\ UNCHANGED r_error
       ELSE r_pc' = "raised" /\ r_error' = "FileNotFoundError"
    /\ UNCHANGED <<detect_vars, lazy_vars, crop_vars, process_vars>>
    /\ UNCHANGED <<reframe_args, found_unavailable, track_vars, video_opened, new_size, crop, output_written>>

\* lines 152-161
ReframeCheckRatio ==
    /\ r_pc = "check_ratio"
    /\ IF RatioSupported(aspect_ratio)
       THEN r_pc' = "open" /\ UNCHANGED r_error
       ELSE r_pc' = "raised" /\ r_error' = "ValueError"
    /\ UNCHANGED <<detect_vars, lazy_vars, crop_vars, process_vars>>
    /\ UNCHANGED <<reframe_args, found_unavailable, track_vars, video_opened, new_size, crop, output_written>>

\* lines 165-186
ReframeOpen ==
    /\ r_pc = "open"
    /\ video_opened' = TRUE
    /\ new_size' = NewSize(video_size[1], video_size[2],
                           ASPECT_RATIOS[aspect_ratio][1], ASPECT_RATIOS[aspect_ratio][2])
    /\ r_pc' = IF enable_face_tracking THEN "track" ELSE "crop"
    /\ UNCHANGED <<detect_vars, lazy_vars, crop_vars, process_vars>>
    /\ UNCHANGED <<reframe_args, found_unavailable, track_vars, crop, output_written, r_error>>

\* lines 245-252, with the landmark_predictor property (lines 51-78) finding no file
TrackUnavailable ==
    /\ r_pc = "track"
    /\ landmark_predictor = "None"
    /\ ~predictor_file
    /\ track_log' = "predictor_unavailable"
    /\ found_unavailable' = TRUE
    /\ face_positions' = <<CenterBox(video_size[1], video_size[2])>>
    /\ r_pc' = "crop"
    /\ UNCHANGED <<detect_vars, lazy_vars, crop_vars, process_vars>>
    /\ UNCHANGED <<reframe_args, landmark_predictor, face_detector, frame_index,
                   sampled_frames, collected_faces, face_frames, video_opened, new_size,
                   crop, output_written, r_error>>

\* lines 245 and 254-264, with the landmark_predictor property (lines 51-82)
\* loading the file or returning the loaded model
TrackBegin ==
    /\ r_pc = "track"
    /\ landmark_predictor = "loaded" \/ predictor_file
    /\ landmark_predictor' = "loaded"
    /\ collected_faces' = <<>>
    /\ face_frames' = <<>>
    /\ frame_index' = 0
    /\ r_pc' = "sample"
    /\ UNCHANGED <<detect_vars, lazy_vars, crop_vars, process_vars>>
    /\ UNCHANGED <<reframe_args, found_unavailable, face_detector, sampled_frames, track_log,
                   face_positions, video_opened, new_size, crop, output_written, r_error>>

\* lines 268-288: one turn of the sampling loop
TrackSample ==
    /\ r_pc = "sample"
    /\ frame_index < TotalFrames(video_fps, video_duration)
    /\ IF frame_index * 10 > video_fps * video_duration
       THEN /\ r_pc' = "sampled"
            /\ UNCHANGED <<face_detector, frame_index, sampled_frames, collected_faces,
                           face_frames>>
       ELSE /\ \E faces \in DetectorOutputs(video_size[1], video_size[2]) :
                  /\ collected_faces' = collected_faces \o faces
                  /\ face_frames' = face_frames \o [k \in 1..Len(faces) |-> frame_index]
            /\ sampled_frames' = Append(sampled_frames, frame_index)
            /\ face_detector' = "loaded"
            /\ frame_index' = frame_index + FrameInterval(video_fps)
            /\ r_pc' = "sample"
    /\ UNCHANGED <<detect_vars, lazy_vars, crop_vars, process_vars>>
    /\ UNCHANGED <<reframe_args, found_unavailable, landmark_predictor, track_log, face_positions,
                   video_opened, new_size, crop, output_written, r_error>>

\* lines 274-280 raising, caught at lines 289-297
TrackRaise ==
    /\ r_pc = "sample"
    /\ frame_index < TotalFrames(video_fps, video_duration)
    /\ frame_index * 10 <= video_fps * video_duration
    /\ sampled_frames' = Append(sampled_frames, frame_index)
    /\ track_log' = "tracking_error"
    /\ face_positions' = <<CenterBox(video_size[1], video_size[2])>>
    /\ r_pc' = "crop"
    /\ UNCHANGED <<detect_vars, lazy_vars, crop_vars, process_vars>>
    /\ UNCHANGED <<reframe_args, found_unavailable, landmark_predictor, face_detector, frame_index,
                   collected_faces, face_frames, video_opened, new_size, crop,
                   output_written, r_error>>

\* line 268: the range is exhausted
TrackLoopEnd ==
    /\ r_pc = "sample"
    /\ frame_index >= TotalFrames(video_fps, video_duration)
    /\ r_pc' = "sampled"
    /\ UNCHANGED <<detect_vars, lazy_vars, crop_vars, process_vars>>
    /\ UNCHANGED <<reframe_args, found_unavailable, track_vars, video_opened, new_size, crop,
                   output_written, r_error>>

\* lines 299-310
TrackReturn ==
    /\ r_pc = "sampled"
    /\ track_log' = IF collected_faces = <<>> THEN "no_faces" ELSE "detected"
    /\ face_positions' = TrackResult(collected_faces, video_size[1], video_size[2])
    /\ r_pc' = "crop"
    /\ UNCHANGED <<detect_vars, lazy_vars, crop_vars, process_vars>>
    /\ UNCHANGED <<reframe_args, found_unavailable, landmark_predictor, face_detector, frame_index,
                   sampled_frames, collected_faces, face_frames, video_opened, new_size,
                   crop, output_written, r_error>>

\* lines 186-202
ReframeCrop ==
    /\ r_pc = "crop"
    /\ crop' = IF enable_face_tracking /\ face_positions # <<>>
               THEN CalculateOptimalCrop(face_positions, video_size[1], video_size[2],
                                         new_size[1], new_size[2])
               ELSE CenterCrop(video_size[1], video_size[2], new_size[1], new_size[2])
    /\ r_pc' = "write"
    /\ UNCHANGED <<detect_vars, lazy_vars, crop_vars, process_vars>>
    /\ UNCHANGED <<reframe_args, found_unavailable, track_vars, video_opened, new_size, output_written, r_error>>

\* lines 205-227
ReframeWrite ==
    /\ r_pc = "write"
    /\ output_written' = TRUE
    /\ r_pc' = "done"
    /\ UNCHANGED <<detect_vars, lazy_vars, crop_vars, process_vars>>
    /\ UNCHANGED <<reframe_args, found_unavailable, track_vars, video_opened, new_size, crop, r_error>>

\* the next call of reframe_clip on the same instance, for the same clip:
\* the locals are new, self._landmark_predictor and self._face_detector are
\* kept, and the predictor file may have been added or removed meanwhile
ReframeAgain ==
    /\ r_pc \in {"done", "raised"}
    /\ calls < MaxCalls
    /\ calls' = calls + 1
    /\ predictor_file' \in BOOLEAN
    /\ r_pc' = "start"
    /\ video_opened' = FALSE
    /\ new_size' = <<0, 0>>
    /\ frame_index' = 0
    /\ sampled_frames' = <<>>
    /\ collected_faces' = <<>>
    /\ face_frames' = <<>>
    /\ track_log' = "none"
    /\ face_positions' = <<>>
    /\ crop' = <<0, 0>>
    /\ output_written' = FALSE
    /\ r_error' = "none"
    /\ UNCHANGED <<detect_vars, lazy_vars, crop_vars, process_vars>>
    /\ UNCHANGED <<clip_exists, aspect_ratio, enable_face_tracking, video_size,
                   video_fps, video_duration, landmark_predictor, face_detector,
                   found_unavailable>>

-----------------------------------------------------------------------------
(* _calculate_optimal_crop called on its own, with any list of boxes *)

\* (position, length) of a box along an axis of length dim; the centres are
\* -3, 0, 1, dim and dim + 2
AxisSpans(dim) == {<<-4, 2>>, <<0, 1>>, <<1, 1>>, <<dim - 1, 3>>, <<dim, 4>>}

\* boxes (x, y, w, h) in and around a frame
CallBoxes(width, height) ==
    {<<sx[1], sy[1], sx[2], sy[2]>> : sx \in AxisSpans(width),
                                       sy \in {<<0, 1>>, <<height - 1, 3>>}}

\* two faces whose centres are (100, 100) and (300, 100)
ExampleFaces == <<<<80, 80, 40, 40>>, <<280, 80, 40, 40>>>>

\* calls with a 640x480 frame and a 200x200 crop
ExampleCalls ==
    {[face_positions |-> f, orig_width |-> 640, orig_height |-> 480,
      crop_width |-> 200, crop_height |-> 200] :
        f \in {<<>>, ExampleFaces, <<ExampleFaces[1]>>}}

\* calls with a small frame, crop dimensions inside it and up to MaxFaces boxes
SmallCalls(w, h) ==
    {[face_positions |-> f, orig_width |-> w, orig_height |-> h,
      crop_width |-> cw, crop_height |-> ch] :
        cw \in 1..w, ch \in {1, h}, f \in SeqsUpTo(CallBoxes(w, h), MaxFaces)}

\* no call of _calculate_optimal_crop on its own in this behaviour
CropIdle ==
    /\ crop_pc = "idle"
    /\ crop_args = [face_positions |-> <<>>, orig_width |-> 1, orig_height |-> 1,
                    crop_width |-> 1, crop_height |-> 1]
    /\ crop_result = "None"

CropInit ==
    /\ crop_pc = "call"
    /\ \/ crop_args \in ExampleCalls
       \/ \E w \in 1..MaxDim, h \in 1..MaxDim : crop_args \in SmallCalls(w, h)
    /\ crop_result = "None"

\* lines 331-344
CropCall ==
    /\ crop_pc = "call"
    /\ crop_result' = CalculateOptimalCrop(crop_args.face_positions,
                                           crop_args.orig_width, crop_args.orig_height,
                                           crop_args.crop_width, crop_args.crop_height)
    /\ crop_pc' = "returned"
    /\ UNCHANGED crop_args
    /\ UNCHANGED <<detect_vars, reframe_vars, lazy_vars, process_vars>>

-----------------------------------------------------------------------------
(* process_clip: extract, reframe, caption, and the clean-up of the files   *)
(* between them.  Paths are names; a file exists when its name is in files. *)

VideoPath == "source.mp4"

TempNames == <<"tmp1.mp4", "tmp2.mp4", "tmp3.mp4">>

\* tempfile.mktemp (lines 105, 157, 369, 461): a name that no file has and
\* that no earlier call of this run was given
Mktemp(taken) ==
    LET free == {i \in 1..Len(TempNames) : TempNames[i] \notin taken}
    IN  TempNames[CHOOSE i \in free : \A j \in free : i <= j]

\* the names this run of process_clip cannot be given again
NamesTaken == files \cup {output_path, extracted_path, reframed_path}

\* lines 482-484: the caption ends before the clip or starts after it
CaptionSkipped(caption, start, end) ==
    caption.end_time <= start \/ caption.start_time >= end

\* lines 486-488 without max(0, ...) and min(end_time - start_time, ...)
AdjustedCaptionShifted(caption, start, end) ==
    [caption EXCEPT !.start_time = caption.start_time - start,
                    !.end_time = caption.end_time - start]

\* lines 486-488: the copy of the caption with clip-relative times
AdjustedCaption(caption, start, end) ==
    [caption EXCEPT !.start_time = Max(0, caption.start_time - start),
                    !.end_time = Min(end - start, caption.end_time - start)]

\* lines 479-489
RECURSIVE AdjustCaptions(_, _, _)
AdjustCaptions(caps, start, end) ==
    IF caps = <<>> THEN <<>>
    ELSE IF CaptionSkipped(Head(caps), start, end)
         THEN AdjustCaptions(Tail(caps), start, end)
         ELSE <<AdjustedCaption(Head(caps), start, end)>>
                  \o AdjustCaptions(Tail(caps), start, end)

\* lines 500 and 503 with the removal left out
ShouldRemoveNever(path, keep) == FALSE

\* lines 500 and 503: os.path.exists(path) and path != keep
ShouldRemove(path, keep) == path \in files /\ path # keep

\* captions around a clip from second 1 to second 4: before it, over its
\* start, inside, of no length, inverted, over its end, after it, over all
CaptionOptions ==
    {[text |-> "before", start_time |-> 0, end_time |-> 1],
     [text |-> "over start", start_time |-> 0, end_time |-> 2],
     [text |-> "inside", start_time |-> 2, end_time |-> 3],
     [text |-> "no length", start_time |-> 3, end_time |-> 3],
     [text |-> "inverted", start_time |-> 3, end_time |-> 2],
     [text |-> "over end", start_time |-> 3, end_time |-> 5],
     [text |-> "after", start_time |-> 4, end_time |-> 5],
     [text |-> "over all", start_time |-> 0, end_time |-> 5]}

\* (start_time, end_time) of the clip: a range of 3 s and an empty one
ClipRanges == {<<1, 4>>, <<2, 2>>}

\* no call of process_clip in this behaviour
ProcessIdle ==
    /\ p_pc = "idle"
    /\ files = {}
    /\ start_time = 0
    /\ end_time = 0
    /\ captions = <<>>
    /\ p_aspect_ratio = "9:16"
    /\ output_path = "None"
    /\ extracted_path = "None"
    /\ reframed_path = "None"
    /\ adjusted_captions = <<>>
    /\ final_path = "None"
    /\ step_log = <<>>
    /\ removed = <<>>
    /\ p_error = "none"

\* a call of process_clip: the source video exists or not, the output path is
\* not given, is a new path, a path that has a file already, or the source
ProcessInit ==
    /\ p_pc = "start"
    /\ files \in {{}, {VideoPath}, {VideoPath, "out.mp4"}}
    /\ \E range \in ClipRanges : start_time = range[1] /\ end_time = range[2]
    /\ captions \in SeqsUpTo(CaptionOptions, MaxCaptions)
    /\ p_aspect_ratio \in {"9:16", "4:3"}
    /\ output_path \in {"None", "out.mp4", VideoPath}
    /\ extracted_path = "None"
    /\ reframed_path = "None"
    /\ adjusted_captions = <<>>
    /\ final_path = "None"
    /\ step_log = <<>>
    /\ removed = <<>>
    /\ p_error = "none"

process_args == <<start_time, end_time, captions, p_aspect_ratio>>

\* lines 457-462
ProcessCheck ==
    /\ p_pc = "start"
    /\ IF VideoPath \in files
       THEN /\ output_path' = IF output_path = "None" THEN Mktemp(NamesTaken)
                                                      ELSE output_path
            /\ p_pc' = "extract"
            /\ UNCHANGED p_error
       ELSE /\ p_pc' = "raised"
            /\ p_error' = "FileNotFoundError"
            /\ UNCHANGED output_path
    /\ UNCHANGED <<process_args, files, extracted_path, reframed_path, adjusted_captions,
                   final_path, step_log, removed>>
    /\ UNCHANGED <<detect_vars, reframe_vars, lazy_vars, crop_vars>>

\* line 468, with extract_clip (lines 101-126) writing to a temporary path
ProcessExtract ==
    /\ p_pc = "extract"
    /\ extracted_path' = Mktemp(NamesTaken)
    /\ files' = files \cup {extracted_path'}
    /\ step_log' = Append(step_log, [op |-> "extract_clip", input |-> VideoPath,
                                     output |-> extracted_path'])
    /\ p_pc' = "reframe"
    /\ UNCHANGED <<process_args, output_path, reframed_path, adjusted_captions,
                   final_path, removed, p_error>>
    /\ UNCHANGED <<detect_vars, reframe_vars, lazy_vars, crop_vars>>

\* lines 471-475, with reframe_clip (lines 149-227) writing to a temporary
\* path, or raising ValueError at line 153
ProcessReframe ==
    /\ p_pc = "reframe"
    /\ IF RatioSupported(p_aspect_ratio)
       THEN /\ reframed_path' = Mktemp(NamesTaken)
            /\ files' = files \cup {reframed_path'}
            /\ step_log' = Append(step_log, [op |-> "reframe_clip",
                                             input |-> extracted_path,
                                             output |-> reframed_path'])
            /\ p_pc' = "captions"
            /\ UNCHANGED p_error
       ELSE /\ p_pc' = "raised"
            /\ p_error' = "ValueError"
            /\ UNCHANGED <<reframed_path, files, step_log>>
    /\ UNCHANGED <<process_args, output_path, extracted_path, adjusted_captions,
                   final_path, removed>>
    /\ UNCHANGED <<detect_vars, reframe_vars, lazy_vars, crop_vars>>

\* lines 479-489
ProcessAdjustCaptions ==
    /\ p_pc = "captions"
    /\ adjusted_captions' = AdjustCaptions(captions, start_time, end_time)
    /\ p_pc' = "add_captions"
    /\ UNCHANGED <<process_args, files, output_path, extracted_path, reframed_path,
                   final_path, step_log, removed, p_error>>
    /\ UNCHANGED <<detect_vars, reframe_vars, lazy_vars, crop_vars>>

\* lines 491-497, with add_captions (lines 365-424) writing to output_path
ProcessAddCaptions ==
    /\ p_pc = "add_captions"
    /\ files' = files \cup {output_path}
    /\ final_path' = output_path
    /\ step_log' = Append(step_log, [op |-> "add_captions", input |-> reframed_path,
                                     output |-> output_path])
    /\ p_pc' = "remove_extracted"
    /\ UNCHANGED <<process_args, output_path, extracted_path, reframed_path,
                   adjusted_captions, removed, p_error>>
    /\ UNCHANGED <<detect_vars, reframe_vars, lazy_vars, crop_vars>>

\* lines 500-501
ProcessRemoveExtracted ==
    /\ p_pc = "remove_extracted"
    /\ IF ShouldRemove(extracted_path, VideoPath)
       THEN /\ files' = files \ {extracted_path}
            /\ removed' = Append(removed, extracted_path)
       ELSE UNCHANGED <<files, removed>>
    /\ p_pc' = "remove_reframed"
    /\ UNCHANGED <<process_args, output_path, extracted_path, reframed_path,
                   adjusted_captions, final_path, step_log, p_error>>
    /\ UNCHANGED <<detect_vars, reframe_vars, lazy_vars, crop_vars>>

\* lines 503-507
ProcessRemoveReframed ==
    /\ p_pc = "remove_reframed"
    /\ IF ShouldRemove(reframed_path, final_path)
       THEN /\ files' = files \ {reframed_path}
            /\ removed' = Append(removed, reframed_path)
       ELSE UNCHANGED <<files, removed>>
    /\ p_pc' = "done"
    /\ UNCHANGED <<process_args, output_path, extracted_path, reframed_path,
                   adjusted_captions, final_path, step_log, p_error>>
    /\ UNCHANGED <<detect_vars, reframe_vars, lazy_vars, crop_vars>>

\* lines 509-511: one of the three service calls raises (the video library
\* fails to read, cut or write); the exception is logged and raised again
ProcessStepRaises ==
    /\ p_pc \in {"extract", "reframe", "add_captions"}
    /\ p_pc' = "raised"
    /\ p_error' = "Exception"
    /\ UNCHANGED <<process_args, files, output_path, extracted_path, reframed_path,
                   adjusted_captions, final_path, step_log, removed>>
    /\ UNCHANGED <<detect_vars, reframe_vars, lazy_vars, crop_vars>>

-----------------------------------------------------------------------------
(* Two invocations of one method on one instance, running at the same time. *)
(* Only their accesses to the lazily loaded models are modelled: each is a  *)
(* property whose test "is None" and whose assignment are separate steps.   *)

Threads == {1, 2}

Handles == {"_nlp", "_emotion_detector", "_face_detector", "_landmark_predictor"}

\* the number of property accesses of a call: detect_clips reads
\* emotion_detector and nlp for each segment (lines 185, 152); reframe_clip
\* reads landmark_predictor once and face_detector for each sampled frame
\* (lines 245, 279)
Accesses(call, items) == IF call = "detect_clips" THEN 2 * items ELSE 1 + items

\* the handle behind the pos-th property access of a call
AccessAt(call, pos) ==
    IF call = "detect_clips"
    THEN (IF pos % 2 = 1 THEN "_emotion_detector" ELSE "_nlp")
    ELSE (IF pos = 1 THEN "_landmark_predictor" ELSE "_face_detector")

\* the handle thread t is accessing
HandleOf(t) == AccessAt(lazy_call, thread_pos[t])

\* the instance attribute of the handle
HandleValue(h) ==
    IF h = "_nlp" THEN nlp
    ELSE IF h = "_emotion_detector" THEN emotion_detector
    ELSE IF h = "_face_detector" THEN face_detector
    ELSE landmark_predictor

\* everything of both services but the four handles
call_vars == <<d_pc, transcription_segments, target_duration, min_duration,
               max_duration, max_clips, segments_with_features, potential_clips,
               scored_clips, top_clips, d_error, raising, scan_counts,
               r_pc, clip_exists, aspect_ratio, enable_face_tracking, video_size,
               video_fps, video_duration, predictor_file, video_opened, new_size,
               frame_index, sampled_frames, collected_faces, face_frames, track_log,
               face_positions, crop, output_written, r_error, calls,
               found_unavailable, crop_vars, process_vars>>

handle_vars == <<nlp, emotion_detector, face_detector, landmark_predictor>>

\* no concurrent invocation in this behaviour
LazyIdle ==
    /\ lazy_call = "none"
    /\ thread_pc = [t \in Threads |-> "idle"]
    /\ thread_pos = [t \in Threads |-> 0]
    /\ thread_items = [t \in Threads |-> 0]
    /\ loads = [h \in Handles |-> 0]

\* both threads are about to make their first property access
LazyInit ==
    /\ DetectIdle
    /\ ReframeNoCall
    /\ CropIdle
    /\ ProcessIdle
    /\ predictor_file \in BOOLEAN
    /\ lazy_call \in {"detect_clips", "reframe_clip"}
    /\ thread_pc = [t \in Threads |-> "check"]
    /\ thread_pos = [t \in Threads |-> 1]
    /\ thread_items \in [Threads -> 1..MaxItems]
    /\ loads = [h \in Handles |-> 0]

\* the property returned: thread t goes to its next access, or has finished
ThreadAdvances(t) ==
    IF thread_pos[t] < Accesses(lazy_call, thread_items[t])
    THEN /\ thread_pos' = [thread_pos EXCEPT ![t] = @ + 1]
         /\ thread_pc' = [thread_pc EXCEPT ![t] = "check"]
    ELSE /\ thread_pc' = [thread_pc EXCEPT ![t] = "done"]
         /\ UNCHANGED thread_pos

\* "if self._x is None" is true (clip_detection_service.py lines 55, 68;
\* video_processing_service.py lines 43, 51) and, for the landmark
\* predictor, the file is found: the thread goes on to load the model
GetterSeesNone(t) ==
    /\ thread_pc[t] = "check"
    /\ HandleValue(HandleOf(t)) = "None"
    /\ HandleOf(t) = "_landmark_predictor" => predictor_file
    /\ thread_pc' = [thread_pc EXCEPT ![t] = "load"]
    /\ UNCHANGED <<call_vars, handle_vars, lazy_call, thread_pos, thread_items, loads>>

\* video_processing_service.py lines 51-78: no predictor file, the property
\* returns None without assigning and _track_faces returns the centre box
GetterNoFile(t) ==
    /\ thread_pc[t] = "check"
    /\ HandleOf(t) = "_landmark_predictor"
    /\ landmark_predictor = "None"
    /\ ~predictor_file
    /\ thread_pc' = [thread_pc EXCEPT ![t] = "done"]
    /\ UNCHANGED <<call_vars, handle_vars, lazy_call, thread_pos, thread_items, loads>>

\* "if self._x is None" is false: the property returns the loaded model
GetterSeesLoaded(t) ==
    /\ thread_pc[t] = "check"
    /\ HandleValue(HandleOf(t)) = "loaded"
    /\ ThreadAdvances(t)
    /\ UNCHANGED <<call_vars, handle_vars, lazy_call, thread_items, loads>>

\* the assignment "self._x = <loaded model>" (clip_detection_service.py lines
\* 58, 70; video_processing_service.py lines 45, 81)
GetterAssign(t) ==
    /\ thread_pc[t] = "load"
    /\ nlp' = IF HandleOf(t) = "_nlp" THEN "loaded" ELSE nlp
    /\ emotion_detector' =
          IF HandleOf(t) = "_emotion_detector" THEN "loaded" ELSE emotion_detector
    /\ face_detector' = IF HandleOf(t) = "_face_detector" THEN "loaded" ELSE face_detector
    /\ landmark_predictor' =
          IF HandleOf(t) = "_landmark_predictor" THEN "loaded" ELSE landmark_predictor
    /\ loads' = [loads EXCEPT ![HandleOf(t)] = @ + 1]
    /\ ThreadAdvances(t)
    /\ UNCHANGED <<call_vars, lazy_call, thread_items>>

LazyNext ==
    \/ \E t \in Threads : GetterSeesNone(t)
    \/ \E t \in Threads : GetterNoFile(t)
    \/ \E t \in Threads : GetterSeesLoaded(t)
    \/ \E t \in Threads : GetterAssign(t)

\* two concurrent invocations of detect_clips, or of reframe_clip
SpecLazy == LazyInit /\ [][LazyNext]_vars

-----------------------------------------------------------------------------
(* The specification: calls of detect_clips or of reframe_clip on one        *)
(* service instance                                                         *)

Init ==
    \/ DetectInit /\ ReframeIdle /\ LazyIdle /\ CropIdle /\ ProcessIdle
    \/ DetectInitRaising /\ ReframeIdle /\ LazyIdle /\ CropIdle /\ ProcessIdle
    \/ DetectInitShort /\ ReframeIdle /\ LazyIdle /\ CropIdle /\ ProcessIdle
    \/ ReframeInit /\ DetectIdle /\ LazyIdle /\ CropIdle /\ ProcessIdle

Next ==
    \/ DetectNoSegments
    \/ DetectFeatures
    \/ DetectFind
    \/ DetectScore
    \/ DetectReturn
    \/ ReframeCheckClip
    \/ ReframeCheckRatio
    \/ ReframeOpen
    \/ TrackUnavailable
    \/ TrackBegin
    \/ TrackSample
    \/ TrackRaise
    \/ TrackLoopEnd
    \/ TrackReturn
    \/ ReframeCrop
    \/ ReframeWrite
    \/ ReframeAgain

Spec == Init /\ [][Next]_vars

\* calls of _calculate_optimal_crop alone
InitCrop == CropInit /\ DetectIdle /\ ReframeIdle /\ LazyIdle /\ ProcessIdle

NextCrop == CropCall

SpecCrop == InitCrop /\ [][NextCrop]_vars

\* calls of process_clip
InitProcess == ProcessInit /\ DetectIdle /\ ReframeIdle /\ LazyIdle /\ CropIdle

NextProcess ==
    \/ ProcessCheck
    \/ ProcessExtract
    \/ ProcessReframe
    \/ ProcessAdjustCaptions
    \/ ProcessAddCaptions
    \/ ProcessRemoveExtracted
    \/ ProcessRemoveReframed
    \/ ProcessStepRaises

SpecProcess == InitProcess /\ [][NextProcess]_vars

-----------------------------------------------------------------------------
(* Properties of detect_clips *)

Returned == d_pc = "done"

\* the clip of the (i, j) pair of a comes before that of b in generation order
GeneratedBefore(a, b) ==
    \/ a.start_idx < b.start_idx
    \/ a.start_idx = b.start_idx /\ a.end_idx < b.end_idx

SameCandidate(a, b) == a.start_idx = b.start_idx /\ a.end_idx = b.end_idx

\* C1: with 0 < min <= target <= max, every returned clip has
\* min_duration <= duration <= max_duration.
C1_DurationContainment ==
    (Returned /\ ValidDurations(target_duration, min_duration, max_duration))
        => \A i \in 1..Len(top_clips) :
              /\ min_duration <= top_clips[i].duration
              /\ top_clips[i].duration <= max_duration

\* a valid call returned two clips, one of them exactly max_duration long
C1_Witness ==
    /\ Returned
    /\ ValidDurations(target_duration, min_duration, max_duration)
    /\ Len(top_clips) >= 2
    /\ \E i \in 1..Len(top_clips) : top_clips[i].duration = max_duration

C4_RankedStable ==
    Returned =>
        /\ \A i, j \in 1..Len(top_clips) :
              i < j => /\ ScoreGeq(top_clips[i], top_clips[j])
                       /\ ScoreEq(top_clips[i], top_clips[j])
                             => GeneratedBefore(top_clips[i], top_clips[j])
        /\ \A c \in 1..Len(scored_clips) :
              (\A t \in 1..Len(top_clips) : ~SameCandidate(top_clips[t], scored_clips[c]))
                  => \A t \in 1..Len(top_clips) : ScoreGeq(top_clips[t], scored_clips[c])

\* two returned clips tie on a positive score, another returned clip scores
\* differently, and a candidate was left out
C4_Witness ==
    /\ Returned
    /\ Len(scored_clips) > Len(top_clips)
    /\ \E i, j \in 1..Len(top_clips) :
          /\ i < j
          /\ ScoreEq(top_clips[i], top_clips[j])
          /\ top_clips[i].score.num > 0
    /\ \E c \in 1..Len(scored_clips) : ~ScoreEq(scored_clips[c], top_clips[1])

\* C5: scoring returns one scored clip per candidate, in the same order, each
\* with a score >= 0 (every model input has non-negative durations, counts
\* and probabilities).
C5_ScoringTotalNonNegative ==
    d_pc \in {"sort", "raised", "done"} =>
        /\ d_error = "none"
        /\ Len(scored_clips) = Len(potential_clips)
        /\ \A i \in 1..Len(scored_clips) :
              /\ SameCandidate(scored_clips[i], potential_clips[i])
              /\ scored_clips[i].score.num >= 0

\* C9: a call whose durations are not 0 < min <= target <= max is rejected
\* before feature extraction and candidate generation, and returns nothing.
C9_InvalidDurationsRejected ==
    ~ValidDurations(target_duration, min_duration, max_duration) =>
        \/ d_pc = "start"
        \/ /\ d_pc = "raised"
           /\ segments_with_features = <<>>
           /\ potential_clips = <<>>

-----------------------------------------------------------------------------
(* Properties of _calculate_segment_features *)

\* _calculate_segment_features has returned its list to detect_clips
FeaturesExtracted ==
    /\ transcription_segments # <<>>
    /\ \/ d_pc \in {"find", "score", "sort", "done"}
       \/ d_pc = "raised" /\ d_error = "ZeroDivisionError"

\* the indices of the segments whose text has a token that is not whitespace
NonBlankIdx(segments) ==
    {i \in 1..Len(segments) :
        \E k \in 1..Len(segments[i].text) : ~IsSpace(segments[i].text[k])}

\* t is raw without its leading and trailing whitespace
IsTrimmedOf(t, raw) ==
    \E a \in 0..Len(raw) : \E b \in a..Len(raw) :
        /\ t = SubSeq(raw, a + 1, b)
        /\ \A k \in 1..Len(raw) : (k <= a \/ k > b) => IsSpace(raw[k])
        /\ t = <<>> \/ (~IsSpace(t[1]) /\ ~IsSpace(t[Len(t)]))

\* C11: when the sentiment classifier, the emotion classifier or the
\* linguistic analyzer raises on a segment, feature extraction does not
\* raise, every segment with text still gets its feature segment, and
\* detect_clips goes on to return.
C11_ClassifierFailureContained ==
    raising \in Classifiers =>
        /\ d_error # "ClassifierError"
        /\ FeaturesExtracted =>
              Len(segments_with_features) = Cardinality(NonBlankIdx(transcription_segments))

\* C12: the list feature extraction returns has exactly one feature segment
\* for each input segment whose trimmed text is non-empty and none for the
\* others, in the input's order, each with the input's start and end, the
\* trimmed text and duration = end - start.
C12_OnePerNonBlankSegment ==
    FeaturesExtracted =>
        LET kept == NonBlankIdx(transcription_segments)
        IN  /\ Len(segments_with_features) = Cardinality(kept)
            /\ \A i \in kept :
                  LET f == segments_with_features[Cardinality({j \in kept : j <= i})]
                      segment == transcription_segments[i]
                  IN  /\ f.start = segment.start
                      /\ f.end = segment.end
                      /\ IsTrimmedOf(f.text, segment.text)
                      /\ f.duration = segment.end - segment.start

\* features were extracted from a transcript of which a blank segment was
\* dropped between two kept ones, one of them with its text trimmed
C12_Witness ==
    /\ FeaturesExtracted
    /\ Len(transcription_segments) = 3
    /\ NonBlankIdx(transcription_segments) = {1, 3}
    /\ Len(segments_with_features) = 2
    /\ \E k \in 1..2 : \E i \in {1, 3} :
          /\ segments_with_features[k].start = transcription_segments[i].start
          /\ segments_with_features[k].text # transcription_segments[i].text

\* the sum of end - start over the segments i..j
RECURSIVE SpanSum(_, _, _)
SpanSum(segments, i, j) ==
    IF i > j THEN 0
    ELSE segments[j].end - segments[j].start + SpanSum(segments, i, j - 1)

\* no run of consecutive segments has a total duration in [mind, maxd]
NoRunInRange(segments, mind, maxd) ==
    \A i \in 1..Len(segments) : \A j \in i..Len(segments) :
        ~(mind <= SpanSum(segments, i, j) /\ SpanSum(segments, i, j) <= maxd)

\* C13: with an empty segment list, with segments whose texts are all empty
\* or whitespace, and with no run of consecutive segments of a total
\* duration within [min_duration, max_duration], detect_clips does not raise
\* and returns the empty list.
C13_NothingFoundReturnsEmpty ==
    (/\ d_pc # "idle"
     /\ \/ transcription_segments = <<>>
        \/ NonBlankIdx(transcription_segments) = {}
        \/ NoRunInRange(transcription_segments, min_duration, max_duration))
        => /\ d_pc # "raised"
           /\ Returned => top_clips = <<>>

\* C14: every candidate has duration = end_time - start_time, its segments
\* are in time order, and no transcript segment lying between its start_time
\* and its end_time is missing from them.
C14_CandidateSpansItsSegments ==
    \A c \in 1..Len(potential_clips) :
        LET clip == potential_clips[c]
        IN  /\ clip.duration = clip.end_time - clip.start_time
            /\ \A k \in 1..(Len(clip.segments) - 1) :
                  clip.segments[k].end <= clip.segments[k + 1].start
            /\ \A i \in 1..Len(transcription_segments) :
                  LET t == transcription_segments[i]
                  IN  (clip.start_time < t.end /\ t.start < clip.end_time)
                          => \E k \in 1..Len(clip.segments) :
                                /\ clip.segments[k].start = t.start
                                /\ clip.segments[k].end = t.end

\* C17: _find_potential_clips and _score_clips leave the feature-segment
\* list and every feature segment in it as they were before the call (and
\* scoring leaves the candidates it was given), and no step of detect_clips
\* changes the caller's transcript segments.
C17_InputsUnchanged ==
    [][/\ transcription_segments' = transcription_segments
       /\ d_pc \in {"find", "score"} =>
             segments_with_features' = segments_with_features
       /\ d_pc = "score" => potential_clips' = potential_clips]_vars

\* scoring has returned the scored clips of a transcript that has a segment
\* of negative sentiment
C17_Witness ==
    /\ d_pc \in {"sort", "done"}
    /\ Len(scored_clips) > 0
    /\ \E i \in 1..Len(segments_with_features) : segments_with_features[i].sentiment < 0

-----------------------------------------------------------------------------
(* Properties of _find_potential_clips *)

\* _find_potential_clips has returned its list to detect_clips
CandidatesGenerated ==
    \/ d_pc \in {"score", "sort"}
    \/ d_pc = "done" /\ transcription_segments # <<>>
    \/ d_pc = "raised" /\ d_error = "ZeroDivisionError"

\* the total duration of the feature segments i..j lies in [min, max]
WindowInRange(i, j) ==
    /\ min_duration <= SpanSum(segments_with_features, i, j)
    /\ SpanSum(segments_with_features, i, j) <= max_duration

\* the window i..j is within 5 seconds of the target
WindowNearTarget(i, j) ==
    /\ SpanSum(segments_with_features, i, j) - target_duration < 5
    /\ target_duration - SpanSum(segments_with_features, i, j) < 5

\* the number of candidates made of the feature segments i..j
Emitted(i, j) ==
    Cardinality({c \in 1..Len(potential_clips) :
                    /\ potential_clips[c].start_idx = i
                    /\ potential_clips[c].end_idx = j})

\* C18 as stated: every window i..j with a total duration in [min_duration,
\* max_duration] and no early exit at an earlier end index of the same start
\* is emitted exactly once.
C18_AsStated ==
    CandidatesGenerated =>
        \A i \in 1..Len(segments_with_features) :
            \A j \in i..Len(segments_with_features) :
                (/\ WindowInRange(i, j)
                 /\ \A jj \in i..(j - 1) : ~(WindowInRange(i, jj) /\ WindowNearTarget(i, jj)))
                    => Emitted(i, j) = 1

\* C18 amended: such a window is emitted exactly once provided the total
\* duration of the segments i..j-1 (0 when j = i) is below max_duration; the
\* scan from i ends once the running duration has reached max_duration.
C18_WindowsEmittedOnce ==
    CandidatesGenerated =>
        \A i \in 1..Len(segments_with_features) :
            \A j \in i..Len(segments_with_features) :
                (/\ WindowInRange(i, j)
                 /\ SpanSum(segments_with_features, i, j - 1) < max_duration
                 /\ \A jj \in i..(j - 1) : ~(WindowInRange(i, jj) /\ WindowNearTarget(i, jj)))
                    => Emitted(i, j) = 1

\* a window that starts with a zero-duration segment and lasts exactly
\* max_duration was emitted once
C18_Witness ==
    /\ CandidatesGenerated
    /\ \E c \in 1..Len(potential_clips) :
          LET clip == potential_clips[c]
          IN  /\ clip.duration = max_duration
              /\ clip.end_idx > clip.start_idx
              /\ clip.segments[1].duration = 0
              /\ Emitted(clip.start_idx, clip.end_idx) = 1

\* C19 as stated: with 0 < min <= target <= max, no candidate of a start
\* index ends after the first end index at which the running duration is
\* within 5 seconds of target_duration.
C19_AsStated ==
    (CandidatesGenerated /\ ValidDurations(target_duration, min_duration, max_duration)) =>
        \A i \in 1..Len(segments_with_features) :
            \A j \in i..Len(segments_with_features) :
                WindowNearTarget(i, j) =>
                    \A c \in 1..Len(potential_clips) :
                        potential_clips[c].start_idx = i => potential_clips[c].end_idx <= j

\* C19 amended: with 0 < min <= target <= max, no candidate of a start index
\* ends after the first end index at which the running duration is within
\* [min_duration, max_duration] and within 5 seconds of target_duration; a
\* running duration below min_duration does not stop the scan.
C19_StopsAtNearTargetCandidate ==
    (CandidatesGenerated /\ ValidDurations(target_duration, min_duration, max_duration)) =>
        \A i \in 1..Len(segments_with_features) :
            \A j \in i..Len(segments_with_features) :
                (WindowInRange(i, j) /\ WindowNearTarget(i, j)) =>
                    \A c \in 1..Len(potential_clips) :
                        potential_clips[c].start_idx = i => potential_clips[c].end_idx <= j

\* a scan stopped at a candidate near the target although the next window
\* of the same start index was within range too
C19_Witness ==
    /\ CandidatesGenerated
    /\ ValidDurations(target_duration, min_duration, max_duration)
    /\ \E i \in 1..Len(segments_with_features) :
          \E j \in i..(Len(segments_with_features) - 1) :
              /\ WindowInRange(i, j)
              /\ WindowNearTarget(i, j)
              /\ WindowInRange(i, j + 1)
              /\ Emitted(i, j) = 1
              /\ Emitted(i, j + 1) = 0

\* C20: a start index whose own segment is longer than max_duration makes
\* no candidate, and its scan examines that one segment only.
C20_OverlongStartSkipped ==
    CandidatesGenerated =>
        \A i \in 1..Len(segments_with_features) :
            segments_with_features[i].duration > max_duration =>
                /\ \A c \in 1..Len(potential_clips) : potential_clips[c].start_idx # i
                /\ scan_counts[i] = 1

\* the scan of an overlong segment that has segments after it examined one
\* segment, and another start index made a candidate
C20_Witness ==
    /\ CandidatesGenerated
    /\ potential_clips # <<>>
    /\ \E i \in 1..(Len(segments_with_features) - 1) :
          /\ segments_with_features[i].duration > max_duration
          /\ scan_counts[i] = 1

-----------------------------------------------------------------------------
(* Properties of _score_clips *)

\* _score_clips has returned its list to detect_clips
ClipsScored == d_pc \in {"sort", "done"} /\ transcription_segments # <<>>

\* the feature segments of a scored clip
SegmentsOf(clip) == SubSeq(segments_with_features, clip.start_idx, clip.end_idx)

\* the summed duration of the segments of the clip that have the flag
FlaggedDuration(clip, flag) ==
    LET segments == SegmentsOf(clip)
    IN  SumSeq([i \in 1..Len(segments) |->
                   IF (flag = "question" /\ segments[i].is_question)
                      \/ (flag = "exclamation" /\ segments[i].is_exclamation)
                   THEN segments[i].end - segments[i].start ELSE 0])

\* C21: for every scored clip, question_score (exclamation_score) is the
\* summed duration of its segments flagged as question (exclamation) over
\* the clip duration, and lies in [0, 1]; for an unflagged segment [0, 30)
\* and an exclamation [30, 65) with target 60, min 30, max 90, the candidate
\* [0, 65) is generated and has exclamation_score 35/65.
C21_FlagScoresAreDurationShares ==
    ClipsScored =>
        /\ \A c \in 1..Len(scored_clips) :
              LET clip == scored_clips[c]
              IN  /\ clip.duration > 0
                  /\ clip.details.question_score = FlaggedDuration(clip, "question")
                  /\ clip.details.exclamation_score = FlaggedDuration(clip, "exclamation")
                  /\ 0 <= clip.details.question_score
                  /\ clip.details.question_score <= clip.duration
                  /\ 0 <= clip.details.exclamation_score
                  /\ clip.details.exclamation_score <= clip.duration
        /\ (/\ Len(segments_with_features) = 2
            /\ segments_with_features[1].start = 0
            /\ segments_with_features[1].end = 30
            /\ ~segments_with_features[1].is_exclamation
            /\ segments_with_features[2].start = 30
            /\ segments_with_features[2].end = 65
            /\ segments_with_features[2].is_exclamation
            /\ target_duration = 60 /\ min_duration = 30 /\ max_duration = 90)
               => \E c \in 1..Len(scored_clips) :
                     /\ scored_clips[c].start_time = 0
                     /\ scored_clips[c].end_time = 65
                     /\ scored_clips[c].duration = 65
                     /\ scored_clips[c].details.exclamation_score = 35

\* the clips of the transcript [0, 30) unflagged, [30, 65) exclamation have
\* been scored with target 60, min 30, max 90
C21_Witness ==
    /\ ClipsScored
    /\ Len(transcription_segments) = 2
    /\ transcription_segments[1].end = 30
    /\ transcription_segments[2].start = 30
    /\ transcription_segments[2].end = 65
    /\ ~segments_with_features[1].is_exclamation
    /\ segments_with_features[2].is_exclamation
    /\ target_duration = 60 /\ min_duration = 30 /\ max_duration = 90
    /\ \E c \in 1..Len(scored_clips) :
          scored_clips[c].duration = 65 /\ scored_clips[c].details.exclamation_score = 35

\* the other values of target_duration a second run is given
OtherTargets == {c.target : c \in DurationConfigs} \ {target_duration}

\* the scored clips of a run over the same segments with another target
ScoredWithTarget(target) ==
    LET clips == FindPotentialClips(segments_with_features, target,
                                    min_duration, max_duration)
    IN  IF ScoringRaises(clips) THEN <<>> ELSE ScoreClips(clips)

ScoringCalled ==
    \/ ClipsScored
    \/ d_pc = "raised" /\ d_error = "ZeroDivisionError"

\* C27: every candidate of duration <= 30 or >= 90 is given the final score
\* 0 by _score_clips; and when max_duration <= 30 or min_duration >= 90
\* every returned clip has score 0 and the returned clips are in generation
\* order.
C27_OutOfWindowScoresZero ==
    /\ ScoringCalled =>
          \A c \in 1..Len(potential_clips) :
              (potential_clips[c].duration <= 30 \/ potential_clips[c].duration >= 90)
                  => \E k \in 1..Len(scored_clips) :
                        /\ SameCandidate(scored_clips[k], potential_clips[c])
                        /\ scored_clips[k].score.num = 0
    /\ (Returned /\ (max_duration <= 30 \/ min_duration >= 90)) =>
          /\ \A i \in 1..Len(top_clips) : top_clips[i].score.num = 0
          /\ \A i, j \in 1..Len(top_clips) :
                i < j => GeneratedBefore(top_clips[i], top_clips[j])

-----------------------------------------------------------------------------
(* Properties of reframe_clip *)

\* the crop rectangle has been computed and is the one video.crop is given
CropApplied == r_pc \in {"write", "done"}

\* _track_faces has returned to reframe_clip
TrackReturned == enable_face_tracking /\ r_pc \in {"crop", "write", "done"}

\* C2: for every frame size, supported ratio, face tracking on or off and every
\* list of face boxes, the crop rectangle lies inside the frame:
\* 0 <= x, 0 <= y, x + crop_width <= W, y + crop_height <= H.
C2_CropInsideFrame ==
    CropApplied =>
        /\ 0 <= crop[1]
        /\ 0 <= crop[2]
        /\ crop[1] + new_size[1] <= video_size[1]
        /\ crop[2] + new_size[2] <= video_size[2]

\* a crop was computed from detected boxes of which one reaches outside the
\* frame, and it sits against the frame's edge
C2_Witness ==
    /\ CropApplied
    /\ track_log = "detected"
    /\ \E i \in 1..Len(face_positions) :
          \/ face_positions[i][1] < 0
          \/ face_positions[i][1] + face_positions[i][3] > video_size[1]
    /\ new_size[1] < video_size[1]
    /\ crop[1] = 0 \/ crop[1] + new_size[1] = video_size[1]

\* C6: _track_faces never returns an empty list; with the landmark model
\* unavailable, after the detector raised (also when boxes had been
\* collected), and after sampling found no box, it returns exactly one box of
\* size (W div 3, H div 3) whose centre is (W div 2, H div 2).
C6_TrackFacesFallback ==
    TrackReturned =>
        /\ face_positions # <<>>
        /\ track_log \in {"predictor_unavailable", "tracking_error", "no_faces", "detected"}
        /\ track_log # "detected" =>
              /\ Len(face_positions) = 1
              /\ face_positions[1][3] = video_size[1] \div 3
              /\ face_positions[1][4] = video_size[2] \div 3
              /\ face_positions[1][1] + face_positions[1][3] \div 2 = video_size[1] \div 2
              /\ face_positions[1][2] + face_positions[1][4] \div 2 = video_size[2] \div 2

\* the detector raised after boxes of an earlier frame had been collected
C6_Witness ==
    /\ TrackReturned
    /\ track_log = "tracking_error"
    /\ collected_faces # <<>>
    /\ Len(face_positions) = 1

\* sampling ran over at least one frame and found no box
C6_WitnessNoFaces ==
    /\ TrackReturned
    /\ track_log = "no_faces"
    /\ sampled_frames # <<>>

\* C7: with the landmark model unavailable and face tracking enabled, no error
\* is raised and the crop position is within 1 pixel, on each axis, of the
\* centre crop ((W - crop_width) div 2, (H - crop_height) div 2).
C7_FallbackNearCenter ==
    /\ (enable_face_tracking /\ r_pc \in {"track", "crop", "write", "done"}) => r_error = "none"
    /\ (CropApplied /\ track_log = "predictor_unavailable") =>
          /\ Abs(crop[1] - (video_size[1] - new_size[1]) \div 2) <= 1
          /\ Abs(crop[2] - (video_size[2] - new_size[2]) \div 2) <= 1

\* the fallback crop is exactly one pixel away from the centre crop
C7_Witness ==
    /\ CropApplied
    /\ track_log = "predictor_unavailable"
    /\ crop[1] = (video_size[1] - new_size[1]) \div 2 + 1

\* the case of C8: a 1920x1080 clip reframed to 9:16 with face tracking on and
\* the landmark model unavailable
C8_Case ==
    /\ CropApplied
    /\ video_size = <<1920, 1080>>
    /\ aspect_ratio = "9:16"
    /\ track_log = "predictor_unavailable"

\* that call has written its output
C8_Witness == C8_Case /\ r_pc = "done" /\ output_written

\* C8 as stated: the crop is 608x1080 at x = 656, y = 0.
C8_AsStated == C8_Case => new_size = <<608, 1080>> /\ crop = <<656, 0>>

\* C8 amended: the crop is 607x1080 (1080 * 9 / 16 = 607.5 truncated) at
\* x = 657, y = 0.
C8_FallbackCrop1080p == C8_Case => new_size = <<607, 1080>> /\ crop = <<657, 0>>

\* C10: with an existing clip and an aspect ratio other than 9:16, 1:1, 16:9,
\* reframe_clip raises before the video is opened, before any frame is
\* sampled and before the output is written.
C10_BadRatioRejectedFirst ==
    (clip_exists /\ aspect_ratio \notin {"9:16", "1:1", "16:9"}) =>
        /\ ~video_opened
        /\ sampled_frames = <<>>
        /\ face_positions = <<>>
        /\ ~output_written
        /\ \/ r_pc \in {"start", "check_ratio"}
           \/ r_pc = "raised" /\ r_error = "ValueError"

\* the ValueError was raised
C10_Witness ==
    /\ clip_exists
    /\ aspect_ratio = "4:3"
    /\ r_pc = "raised"
    /\ r_error = "ValueError"

\* the frame was opened and the crop dimensions derived (lines 165-183)
DimensionsDerived == video_opened /\ r_pc \in {"track", "sample", "sampled", "crop", "write", "done"}

\* target_aspect > orig_aspect, as fractions
TargetWider ==
    ASPECT_RATIOS[aspect_ratio][1] * video_size[2] > video_size[1] * ASPECT_RATIOS[aspect_ratio][2]

\* C24: for every positive frame size and supported ratio the crop dimensions
\* keep one axis of the frame and reduce the other: the full width with a
\* height <= the frame's when the target ratio is wider than the frame's, else
\* the full height with a width <= the frame's; neither exceeds the frame.
C24_CropDimensionsWithinFrame ==
    DimensionsDerived =>
        /\ TargetWider => new_size[1] = video_size[1] /\ new_size[2] <= video_size[2]
        /\ ~TargetWider => new_size[2] = video_size[2] /\ new_size[1] <= video_size[1]
        /\ new_size[1] <= video_size[1]
        /\ new_size[2] <= video_size[2]
        /\ new_size[1] >= 0 /\ new_size[2] >= 0

\* a 4:3 frame given 16:9 keeps its width and loses height
C24_Witness ==
    /\ DimensionsDerived
    /\ video_size = <<640, 480>>
    /\ aspect_ratio = "16:9"
    /\ new_size = <<640, 360>>

\* the sampling loop of _track_faces has taken at least two frames
TwoFramesSampled == enable_face_tracking /\ Len(sampled_frames) >= 2

C26_SamplingInOrder ==
    /\ Len(sampled_frames) >= 1 => sampled_frames[1] = 0
    /\ \A k \in 1..(Len(sampled_frames) - 1) :
          sampled_frames[k + 1] = sampled_frames[k] + FrameInterval(video_fps)
    /\ \A k \in 1..Len(sampled_frames) :
          /\ sampled_frames[k] < (video_fps * video_duration) \div 10
          /\ 0 <= sampled_frames[k] * 10
          /\ sampled_frames[k] * 10 <= video_fps * video_duration
    /\ Len(face_frames) = Len(collected_faces)
    /\ \A k \in 1..(Len(face_frames) - 1) : face_frames[k] <= face_frames[k + 1]
    /\ \A k \in 1..Len(face_frames) : \E j \in 1..Len(sampled_frames) : face_frames[k] = sampled_frames[j]

\* three frames were sampled and boxes of the first and of the last collected
C26_Witness ==
    /\ Len(sampled_frames) = 3
    /\ Len(face_frames) >= 2
    /\ face_frames[1] = sampled_frames[1]
    /\ face_frames[Len(face_frames)] = sampled_frames[3]
    /\ r_pc = "sampled"

-----------------------------------------------------------------------------
(* Properties of _calculate_optimal_crop *)

CropReturned == crop_pc = "returned"

\* the dimension of the frame and of the crop along an axis
FrameDim(axis) == IF axis = 1 THEN crop_args.orig_width ELSE crop_args.orig_height

CropDim(axis) == IF axis = 1 THEN crop_args.crop_width ELSE crop_args.crop_height

\* the centre of a box along an axis, as line 336 takes it
BoxCentre(box, axis) == box[axis] + box[axis + 2] \div 2

\* the sum of the centres of the boxes of the call along an axis
RECURSIVE CentreSumOf(_, _)
CentreSumOf(boxes, axis) ==
    IF boxes = <<>> THEN 0
    ELSE BoxCentre(boxes[1], axis) + CentreSumOf(Tail(boxes), axis)

CentreSum(axis) == CentreSumOf(crop_args.face_positions, axis)

FaceCount == Len(crop_args.face_positions)

CropFitsFrame ==
    /\ crop_args.crop_width <= crop_args.orig_width
    /\ crop_args.crop_height <= crop_args.orig_height

\* v is the whole number of pixels that puts the middle of the crop (its
\* half taken as crop_dim div 2) on the mean centre: v <= mean - half < v + 1
CentredOnMean(v, axis) ==
    /\ v * FaceCount <= CentreSum(axis) - (CropDim(axis) \div 2) * FaceCount
    /\ CentreSum(axis) - (CropDim(axis) \div 2) * FaceCount < (v + 1) * FaceCount

Clamped(v, axis) == Max(0, Min(FrameDim(axis) - CropDim(axis), v))

\* C23: for a non-empty face list and crop dimensions <= the frame's, the
\* result on each axis is the crop centred on the unweighted mean of all the
\* box centres, clamped to [0, frame_dim - crop_dim]; for an empty list it is
\* the crop in the middle of the frame; two faces with centres (100,100) and
\* (300,100) in a 640x480 frame with a 200x200 crop give x = 100, y = 0.
C23_CropCentredOnMeanFace ==
    (CropReturned /\ CropFitsFrame) =>
        /\ FaceCount > 0 =>
              \A axis \in {1, 2} :
                  \E v \in (-10 - CropDim(axis))..(FrameDim(axis) + 10) :
                      /\ CentredOnMean(v, axis)
                      /\ crop_result[axis] = Clamped(v, axis)
        /\ FaceCount = 0 =>
              \A axis \in {1, 2} :
                  crop_result[axis] = (FrameDim(axis) - CropDim(axis)) \div 2
        /\ (crop_args.face_positions = ExampleFaces /\ crop_args.orig_width = 640) =>
              crop_result = <<100, 0>>

\* the call of the example has returned (100, 0)
C23_Witness ==
    /\ CropReturned
    /\ crop_args = [face_positions |-> ExampleFaces, orig_width |-> 640,
                    orig_height |-> 480, crop_width |-> 200, crop_height |-> 200]
    /\ BoxCentre(ExampleFaces[1], 1) = 100 /\ BoxCentre(ExampleFaces[1], 2) = 100
    /\ BoxCentre(ExampleFaces[2], 1) = 300 /\ BoxCentre(ExampleFaces[2], 2) = 100
    /\ crop_result = <<100, 0>>

\* every box centre of the call is inside the frame
CentresInsideFrame ==
    \A i \in 1..FaceCount : \A axis \in {1, 2} :
        /\ 0 <= BoxCentre(crop_args.face_positions[i], axis)
        /\ BoxCentre(crop_args.face_positions[i], axis) <= FrameDim(axis)

\* C28: when every box centre is inside the frame and the crop dimensions are
\* positive and <= the frame's, the mean face centre is inside the returned
\* crop window on both axes: crop <= mean <= crop + crop_dim.
C28_MeanFaceInsideCrop ==
    (/\ CropReturned
     /\ FaceCount > 0
     /\ CentresInsideFrame
     /\ CropFitsFrame
     /\ crop_args.crop_width > 0 /\ crop_args.crop_height > 0) =>
        \A axis \in {1, 2} :
            /\ crop_result[axis] * FaceCount <= CentreSum(axis)
            /\ CentreSum(axis) <= (crop_result[axis] + CropDim(axis)) * FaceCount

\* two faces inside the frame whose mean x is not whole, the crop narrower
\* than the frame and pushed against the frame's right edge
C28_Witness ==
    /\ CropReturned
    /\ FaceCount = 2
    /\ CentresInsideFrame
    /\ CentreSum(1) % 2 # 0
    /\ crop_args.crop_width < crop_args.orig_width
    /\ crop_result[1] = crop_args.orig_width - crop_args.crop_width

-----------------------------------------------------------------------------
(* Properties of process_clip *)

CaptionsAdjusted == p_pc \in {"add_captions", "remove_extracted", "remove_reframed", "done"}

\* the captions of the call that overlap the clip, by index
OverlappingIdx ==
    {i \in 1..Len(captions) :
        captions[i].end_time > start_time /\ captions[i].start_time < end_time}

\* the index in captions of the k-th overlapping caption
KthOverlapping(k) ==
    CHOOSE i \in OverlappingIdx : Cardinality({j \in OverlappingIdx : j <= i}) = k

\* C29: with start_time < end_time, every caption handed to add_captions
\* overlaps the clip in source time, has 0 <= start' and
\* end' <= end_time - start_time, and start' < end' if the source caption had
\* start < end; the captions ending at or before start_time or starting at or
\* after end_time are left out; the kept ones keep their order.
C29_CaptionsClippedToClip ==
    (CaptionsAdjusted /\ start_time < end_time) =>
        /\ Len(adjusted_captions) = Cardinality(OverlappingIdx)
        /\ \A k \in 1..Len(adjusted_captions) :
              LET source == captions[KthOverlapping(k)]
                  given == adjusted_captions[k]
              IN  /\ given.text = source.text
                  /\ ~(source.end_time <= start_time \/ source.start_time >= end_time)
                  /\ 0 <= given.start_time
                  /\ given.end_time <= end_time - start_time
                  /\ given.start_time \in {0, source.start_time - start_time}
                  /\ given.end_time \in {end_time - start_time, source.end_time - start_time}
                  /\ source.start_time < source.end_time => given.start_time < given.end_time

\* of a caption over the start of the clip and one after the clip, in the
\* other order in the call, the first was handed on with its start at 0
C29_Witness ==
    /\ CaptionsAdjusted
    /\ start_time < end_time
    /\ Len(captions) = 2
    /\ captions[1].text = "after"
    /\ captions[2].text = "over start"
    /\ adjusted_captions = <<[text |-> "over start", start_time |-> 0, end_time |-> 1]>>

Removed == {removed[k] : k \in 1..Len(removed)}

\* C30: extract, reframe and caption run in that order, each on the output of
\* the step before; on a successful return the returned path is the captioned
\* file, the extracted and the reframed file have been deleted, and neither
\* the source video nor the final output file is ever deleted.
C30_PipelineAndCleanup ==
    /\ Len(step_log) <= 3
    /\ Len(step_log) >= 1 =>
          step_log[1].op = "extract_clip" /\ step_log[1].input = VideoPath
    /\ Len(step_log) >= 2 =>
          step_log[2].op = "reframe_clip" /\ step_log[2].input = step_log[1].output
    /\ Len(step_log) >= 3 =>
          step_log[3].op = "add_captions" /\ step_log[3].input = step_log[2].output
    /\ p_pc = "done" =>
          /\ Len(step_log) = 3
          /\ final_path = step_log[3].output
          /\ final_path \in files
          /\ step_log[1].output \notin files /\ step_log[1].output \in Removed
          /\ step_log[2].output \notin files /\ step_log[2].output \in Removed
    /\ VideoPath \notin Removed
    /\ final_path \notin Removed
    /\ p_pc \notin {"idle", "start", "raised"} => VideoPath \in files

\* a call without output_path has returned: three temporary paths were
\* taken, the first holds the result and the two others were removed
C30_Witness ==
    /\ p_pc = "done"
    /\ final_path = "tmp1.mp4"
    /\ removed = <<"tmp2.mp4", "tmp3.mp4">>
    /\ files = {VideoPath, "tmp1.mp4"}

\* C15: once a call on the instance has found the landmark model unavailable,
\* every later _track_faces call on the instance takes the fallback path: it
\* samples no frame and returns from the branch of lines 245-252, whatever
\* happened to the model file between the calls.
C15_DowngradePermanent ==
    found_unavailable =>
        /\ r_pc \notin {"sample", "sampled"}
        /\ track_log \in {"none", "predictor_unavailable"}

-----------------------------------------------------------------------------
(* Properties of the lazily loaded models *)

\* C16: in two concurrent invocations of detect_clips, or of reframe_clip,
\* on one instance, no model handle (_nlp, _emotion_detector,
\* _face_detector, _landmark_predictor) is assigned by both: each model is
\* loaded at most once.
C16_EachModelLoadedOnce == \A h \in Handles : loads[h] <= 1

====
